---- MODULE Spec2Model ----
(***************************************************************************)
(* Model of the two training pipelines of project1/code/models:            *)
(*   autoencoder_tree.py  AutoencoderTree (constructor, train, predict)    *)
(*   vanilla_cnn.py       vanillaCNN and train_vanilla_cnn                 *)
(* One behaviour is one run of one entry point (mode "ae" or "cnn").       *)
(* A numpy array of shape (N, L, 1) is a sequence of N samples, each a     *)
(* sequence of L numbers; the trailing axis of size 1 is elided.           *)
(***************************************************************************)
EXTENDS Integers, Sequences, FiniteSets, TLC

VARIABLES
    mode,       \* which entry point this run executes: "ae" or "cnn"
    pc,         \* position of the running code
    args,       \* the arguments the entry point was called with
    sigLen,     \* length of one signal in the dataset files
    self,       \* attributes of the AutoencoderTree object (its __dict__)
    loc,        \* local variables of the running function
    raised,     \* exception that escaped the last call, "none" if none
    fit,        \* the framework training loop: arguments and progress
    log,        \* framework-level steps, in the order they happened
    calls       \* number of train()/predict() calls made so far

vars == <<mode, pc, args, sigLen, self, loc, raised, fit, log, calls>>

----------------------------------------------------------------------------
(* Bounds of the model *)

\* longest signal the dataset files may hold (AutoencoderTree runs)
MaxRawLen == 188
\* train()/predict() calls made on one AutoencoderTree object
MaxCalls == 3

(* Module constants of autoencoder_tree.py *)
BATCH_SIZE == 128
EPOCHS == 3
EARLY_STOPPING_PATIENCE == 2
FILTER_SIZE == 3
AE_INPUT_LEN == 188

DatasetArgs == {"mithb", "ptbdb", "mitbih", "PTBDB"}
TrainAeOnArgs == {"full", "same", "both"}

----------------------------------------------------------------------------
(* Log entries: a framework-level step and the object it acts on *)

Ev(op, of, at) == [op |-> op, of |-> of, at |-> at]

----------------------------------------------------------------------------
(* Python object attributes: a function from the names assigned so far *)

HasAttr(obj, a) == a \in DOMAIN obj

SetAttr(obj, a, v) ==
    [b \in DOMAIN obj \cup {a} |-> IF b = a THEN v ELSE obj[b]]

SetAttrs(obj, new) ==
    [b \in DOMAIN obj \cup DOMAIN new |-> IF b \in DOMAIN new THEN new[b] ELSE obj[b]]

NoAttrs == [a \in {} |-> 0]

----------------------------------------------------------------------------
(* The dataset loaders (datasets.py): pre-split train/test arrays. Sample  *)
(* number id of length n holds the value id everywhere (never zero).       *)

Sample(id, n) == [i \in 1..n |-> id]

load_arrhythmia_dataset(n) ==
    [X |-> <<Sample(1, n), Sample(2, n)>>, y |-> <<0, 4>>,
     X_test |-> <<Sample(3, n)>>, y_test |-> <<4>>]

load_PTB_dataset(n) ==
    [X |-> <<Sample(4, n), Sample(5, n)>>, y |-> <<0, 1>>,
     X_test |-> <<Sample(6, n)>>, y_test |-> <<1>>]

----------------------------------------------------------------------------
(* AutoencoderTree.init_autoencoder: the layer stack *)

Conv1D(filters, kernel, strides, padding) ==
    [kind |-> "Conv1D", filters |-> filters, kernel |-> kernel,
     strides |-> strides, padding |-> padding]

Conv1DTranspose(filters, kernel, strides, padding) ==
    [kind |-> "Conv1DTranspose", filters |-> filters, kernel |-> kernel,
     strides |-> strides, padding |-> padding]

init_autoencoder ==
    [layers |-> <<Conv1D(8, FILTER_SIZE, 2, "same"),
                  Conv1D(2, FILTER_SIZE, 2, "same"),
                  Conv1DTranspose(2, FILTER_SIZE, 2, "same"),
                  Conv1DTranspose(8, FILTER_SIZE, 2, "same"),
                  Conv1DTranspose(1, 1, 1, "same")>>,
     input_len |-> AE_INPUT_LEN,
     loss |-> "mse",
     fitted_on |-> <<>>,
     epochs_run |-> 0]

\* Output length of one layer for an input of length n (Keras shape rules):
\* a strided 'same' convolution gives ceil(n / strides), a 'valid' one
\* floor((n - kernel) / strides) + 1, a 'same' transposed one n * strides.
LayerOutLen(layer, n) ==
    IF layer.kind = "Conv1D"
    THEN IF layer.padding = "same"
         THEN (n + layer.strides - 1) \div layer.strides
         ELSE (n - layer.kernel) \div layer.strides + 1
    ELSE IF layer.padding = "same"
         THEN n * layer.strides
         ELSE (n - 1) * layer.strides + layer.kernel

\* Lengths after each of the first k layers, for an input of length n.
RECURSIVE LayerLens(_, _, _)
LayerLens(layers, k, n) ==
    IF k = 0 THEN <<>>
    ELSE LET before == LayerLens(layers, k - 1, n)
             inLen == IF k = 1 THEN n ELSE before[k - 1]
         IN  Append(before, LayerOutLen(layers[k], inLen))

\* Length of the model's output for an input of length n.
OutputLen(model, n) ==
    LayerLens(model.layers, Len(model.layers), n)[Len(model.layers)]

\* Width of Flatten()(layers[1].output): the second layer's length times
\* its number of filters.
FeatureWidth(model, n) ==
    LayerLens(model.layers, 2, n)[2] * model.layers[2].filters

----------------------------------------------------------------------------
(* AutoencoderTree._pad and the split of load_data *)

\* Mutant: the zero is put in front of the sample.
_pad_Front(X) == [i \in DOMAIN X |-> <<0>> \o X[i]]

\* np.append(X, np.zeros((N, 1, 1)), axis=1)
_pad(X) == [i \in DOMAIN X |-> Append(X[i], 0)]

RemoveAt(s, v) == [i \in 1..(Len(s) - 1) |-> IF i < v THEN s[i] ELSE s[i + 1]]

\* train_test_split(X, y, test_size=VALIDATION_SPLIT, stratify=y) with the
\* sample at index v drawn for validation: a tenth of the samples, rounded
\* up, is one sample for the arrays of this model (the shuffle is the
\* library's).
train_test_split(X, y, v) ==
    [X_train |-> RemoveAt(X, v), X_valid |-> <<X[v]>>,
     y_train |-> RemoveAt(y, v), y_valid |-> <<y[v]>>]

ExtraTreesClassifier == [n_estimators |-> 100, fitted |-> FALSE,
                         fit_X |-> <<>>, fit_y |-> <<>>]

\* featurizer.predict(X): one feature vector per sample, of the bottleneck's
\* flattened width; "of" remembers the sample it was computed from.
Featurize(model, X) ==
    [i \in DOMAIN X |-> [of |-> X[i], width |-> FeatureWidth(model, Len(X[i]))]]

NoFit == [running |-> FALSE, epochs |-> 0, batch_size |-> 0, epoch |-> 0,
          callbacks |-> <<>>, best |-> 0, wait |-> 0, should_stop |-> FALSE]

----------------------------------------------------------------------------
(* AutoencoderTree.__init__ *)

\* Mutant: load_data runs before init_autoencoder.
AE_InitFlow_LoadFirst(p) ==
    CASE p = "start"     -> "ae_load"
      [] p = "ae_load"   -> "ae_select"
      [] p = "ae_select" -> "ae_split"
      [] p = "ae_split"  -> "ae_new"
      [] p = "ae_new"    -> "ae_clf"
      [] p = "ae_clf"    -> "ready"

\* Mutant: the classifier is created before load_data runs.
AE_InitFlow_ClfFirst(p) ==
    CASE p = "start"     -> "ae_new"
      [] p = "ae_new"    -> "ae_clf"
      [] p = "ae_clf"    -> "ae_load"
      [] p = "ae_load"   -> "ae_select"
      [] p = "ae_select" -> "ae_split"
      [] p = "ae_split"  -> "ready"

\* The order of the constructor's statements, load_data inlined: the
\* position that follows position p ("start" is the call itself).
AE_InitFlow(p) ==
    CASE p = "start"     -> "ae_new"      \* lines 40-43
      [] p = "ae_new"    -> "ae_load"     \* line 44, load_data lines 93-94
      [] p = "ae_load"   -> "ae_select"   \* load_data lines 95-100
      [] p = "ae_select" -> "ae_split"    \* load_data lines 102-123
      [] p = "ae_split"  -> "ae_clf"      \* line 45
      [] p = "ae_clf"    -> "ready"

\* Mutant: the final else falls through to the PTB arrays.
SelectDataset_NoElse(dataset) ==
    IF dataset = "mithb" THEN "mit" ELSE "ptb"

\* load_data lines 95-100: the arrays the dataset name selects
SelectDataset(dataset) ==
    IF dataset = "mithb" THEN "mit"
    ELSE IF dataset = "ptbdb" THEN "ptb"
    ELSE "ValueError"

\* lines 40-43: set_seeds, self.train_ae_on, self.init_autoencoder()
AE_InitAutoencoder ==
    /\ mode = "ae" /\ pc = "ae_new"
    /\ self' = SetAttrs(self, [train_ae_on |-> args.train_ae_on,
                               autoencoder |-> init_autoencoder])
    /\ log' = Append(log, Ev("construct", "autoencoder", "done"))
    /\ pc' = AE_InitFlow(pc)
    /\ UNCHANGED <<mode, args, sigLen, loc, raised, fit, calls>>

\* load_data lines 93-94: both loaders are called before the name is checked
AE_LoadFiles ==
    /\ mode = "ae" /\ pc = "ae_load"
    /\ loc' = [mit |-> load_arrhythmia_dataset(sigLen),
               ptb |-> load_PTB_dataset(sigLen)]
    /\ log' = Append(log, Ev("load", "datasets", "done"))
    /\ pc' = AE_InitFlow(pc)
    /\ UNCHANGED <<mode, args, sigLen, self, raised, fit, calls>>

\* load_data lines 95-100: select the arrays of the dataset or raise
AE_SelectDataset ==
    /\ mode = "ae" /\ pc = "ae_select"
    /\ IF SelectDataset(args.dataset) = "mit"
       THEN /\ loc' = [mit |-> loc.mit, ptb |-> loc.ptb, sel |-> loc.mit]
            /\ pc' = AE_InitFlow(pc)
            /\ UNCHANGED raised
       ELSE IF SelectDataset(args.dataset) = "ptb"
       THEN /\ loc' = [mit |-> loc.mit, ptb |-> loc.ptb, sel |-> loc.ptb]
            /\ pc' = AE_InitFlow(pc)
            /\ UNCHANGED raised
       ELSE /\ raised' = "ValueError"
            /\ loc' = NoAttrs
            /\ pc' = "failed"
    /\ UNCHANGED <<mode, args, sigLen, self, fit, log, calls>>

\* load_data lines 102-123: pad, split, assign (DEBUG and UPSAMPLE are False)
AE_PadSplitAssign ==
    /\ mode = "ae" /\ pc = "ae_split"
    /\ \E v \in 1..Len(loc.sel.X) :
         LET X      == _pad(loc.sel.X)
             X_test == _pad(loc.sel.X_test)
             X_mit  == _pad(loc.mit.X)
             X_ptb  == _pad(loc.ptb.X)
             split  == train_test_split(X, loc.sel.y, v)
         IN  self' = SetAttrs(self,
                 [X_train |-> split.X_train, y_train |-> split.y_train,
                  X_valid |-> split.X_valid, y_valid |-> split.y_valid,
                  X_test |-> X_test, y_test |-> loc.sel.y_test,
                  X_train_full |-> X_mit \o X_ptb,
                  y_train_full |-> loc.mit.y \o loc.ptb.y])
    /\ loc' = NoAttrs
    /\ pc' = AE_InitFlow(pc)
    /\ UNCHANGED <<mode, args, sigLen, raised, fit, log, calls>>

\* __init__ line 45
AE_CreateClf ==
    /\ mode = "ae" /\ pc = "ae_clf"
    /\ self' = SetAttr(self, "clf", ExtraTreesClassifier)
    /\ pc' = AE_InitFlow(pc)
    /\ UNCHANGED <<mode, args, sigLen, loc, raised, fit, log, calls>>

----------------------------------------------------------------------------
(* AutoencoderTree.train *)

\* Mutant: the two branches of line 127 are swapped.
X_train_ae_Swapped(obj) ==
    IF obj.train_ae_on = "full" THEN obj.X_train ELSE obj.X_train_full

\* line 127
X_train_ae(obj) ==
    IF obj.train_ae_on = "full" THEN obj.X_train_full ELSE obj.X_train

\* the arguments of autoencoder.fit, lines 128-132
AE_FitArgs ==
    [running |-> TRUE, epochs |-> EPOCHS, batch_size |-> BATCH_SIZE, epoch |-> 0,
     callbacks |-> <<>>, best |-> 0, wait |-> 0, should_stop |-> FALSE]

\* lines 126-132, entry of autoencoder.fit(X_train_ae, X_train_ae, ...).
\* The framework raises when the output of the stack and the target differ
\* in length (the loss cannot be computed); an input that differs from the
\* declared input_shape is rejected by some framework versions and only
\* warned about by others.
AE_TrainFitBegin ==
    /\ mode = "ae" /\ pc = "ready" /\ calls < MaxCalls
    /\ LET X     == X_train_ae(self)
           inLen == Len(X[1])
           mustRaise == OutputLen(self.autoencoder, inLen) # inLen
           mayRaise  == inLen # self.autoencoder.input_len
       IN  \E fails \in BOOLEAN :
             /\ mustRaise => fails
             /\ fails => (mustRaise \/ mayRaise)
             /\ IF fails
                THEN /\ raised' = "ValueError"
                     /\ pc' = "ready"
                     /\ calls' = calls + 1
                     /\ log' = log \o <<Ev("fit", "autoencoder", "begin"),
                                        Ev("fit", "autoencoder", "raised")>>
                     /\ UNCHANGED <<fit, loc>>
                ELSE /\ raised' = "none"
                     /\ pc' = "ae_fit"
                     /\ fit' = AE_FitArgs
                     /\ loc' = [X_train_ae |-> X]
                     /\ log' = Append(log, Ev("fit", "autoencoder", "begin"))
                     /\ UNCHANGED calls
    /\ UNCHANGED <<mode, args, sigLen, self>>

\* one epoch of the framework's loop; no callback can stop it
AE_FitEpoch ==
    /\ mode = "ae" /\ pc = "ae_fit"
    /\ fit.running /\ fit.epoch < fit.epochs
    /\ fit' = [fit EXCEPT !.epoch = @ + 1]
    /\ UNCHANGED <<mode, pc, args, sigLen, self, loc, raised, log, calls>>

\* fit returns; lines 134-138: the featurizer shares the first two layers
\* of the fitted autoencoder and computes the training features
AE_TrainFeaturize ==
    /\ mode = "ae" /\ pc = "ae_fit"
    /\ fit.running /\ fit.epoch = fit.epochs
    /\ LET ae == [self.autoencoder EXCEPT !.fitted_on = loc.X_train_ae,
                                          !.epochs_run = fit.epoch]
           fz == [layers |-> SubSeq(ae.layers, 1, 2),
                  input_len |-> ae.input_len,
                  epochs_run |-> ae.epochs_run]
       IN  /\ self' = SetAttrs(self, [autoencoder |-> ae, featurizer |-> fz])
           /\ loc' = [X_train |-> Featurize(fz, self.X_train)]
    /\ fit' = [fit EXCEPT !.running = FALSE]
    /\ log' = log \o <<Ev("fit", "autoencoder", "done"),
                       Ev("predict", "featurizer", "done")>>
    /\ pc' = "ae_fit_clf"
    /\ UNCHANGED <<mode, args, sigLen, raised, calls>>

\* lines 140-141: self.clf.fit(X_train, self.y_train)
AE_TrainFitClf ==
    /\ mode = "ae" /\ pc = "ae_fit_clf"
    /\ self' = SetAttr(self, "clf",
                   [self.clf EXCEPT !.fitted = TRUE, !.fit_X = loc.X_train,
                                    !.fit_y = self.y_train])
    /\ log' = Append(log, Ev("fit", "clf", "done"))
    /\ loc' = NoAttrs
    /\ pc' = "ready"
    /\ calls' = calls + 1
    /\ UNCHANGED <<mode, args, sigLen, raised, fit>>

----------------------------------------------------------------------------
(* AutoencoderTree.predict, lines 143-146 *)

\* Mutant: the featurizer exists from the start, so only the unfitted
\* classifier stops predict.
PredictRaises_FeaturizerPresent(obj) ==
    IF ~HasAttr(obj, "featurizer") THEN "NotFittedError"
    ELSE IF ~obj.clf.fitted THEN "NotFittedError"
    ELSE "none"

\* What predict raises: line 144 reads self.featurizer, which only train
\* assigns; line 145 needs a fitted classifier.
PredictRaises(obj) ==
    IF ~HasAttr(obj, "featurizer") THEN "AttributeError"
    ELSE IF ~obj.clf.fitted THEN "NotFittedError"
    ELSE "none"

AE_Predict ==
    /\ mode = "ae" /\ pc = "ready" /\ calls < MaxCalls
    /\ calls' = calls + 1
    /\ IF PredictRaises(self) = "AttributeError"
       THEN /\ raised' = "AttributeError"
            /\ UNCHANGED <<self, log>>
       ELSE IF PredictRaises(self) = "NotFittedError"
       THEN /\ raised' = "NotFittedError"
            /\ log' = Append(log, Ev("predict", "featurizer", "done"))
            /\ UNCHANGED self
       ELSE LET X_test == Featurize(self.featurizer, self.X_test)
                from == [n |-> Len(X_test),
                         featurizer_epochs |-> self.featurizer.epochs_run,
                         clf_fitted |-> self.clf.fitted]
            IN  /\ self' = SetAttrs(self, [y_pred |-> from, y_pred_proba |-> from])
                /\ raised' = "none"
                /\ log' = log \o <<Ev("predict", "featurizer", "done"),
                                   Ev("predict", "clf", "done")>>
    /\ UNCHANGED <<mode, pc, args, sigLen, loc, fit>>

----------------------------------------------------------------------------
(* vanilla_cnn.py: vanillaCNN *)

Conv1d(in_channels, out_channels, kernel_size) ==
    [kind |-> "Conv1d", in_channels |-> in_channels,
     out_channels |-> out_channels, kernel_size |-> kernel_size]

ReLU == [kind |-> "ReLU"]

Linear(in_features, out_features) ==
    [in_features |-> in_features, out_features |-> out_features]

\* lines 25-31: the first n convolutions, each followed by its activation
RECURSIVE BuildNet(_, _, _)
BuildNet(channels, kernel_size, n) ==
    IF n = 0 THEN <<>>
    ELSE BuildNet(channels, kernel_size, n - 1)
         \o <<Conv1d(channels[n], channels[n + 1], kernel_size), ReLU>>

\* lines 35-39: the width of the linear head
HeadWidth(no_classes) == IF no_classes = 2 THEN 1 ELSE no_classes

\* vanillaCNN.__init__, lines 20-41
vanillaCNN(channels, kernel_size, output_size, no_classes) ==
    [net |-> BuildNet(channels, kernel_size, Len(channels) - 1),
     no_classes |-> no_classes,
     fc |-> Linear(output_size, HeadWidth(no_classes))]

\* A tensor of shape (B, c, l), or the failure of the operation computing it
BadShape == [ok |-> FALSE, c |-> 0, l |-> 0]

\* Mutant: the convolution shortens the signal by kernel_size.
ApplyModule_OffByOne(m, sh) ==
    IF ~sh.ok THEN BadShape
    ELSE IF m.kind = "ReLU" THEN sh
    ELSE IF sh.c # m.in_channels \/ sh.l < m.kernel_size THEN BadShape
    ELSE [ok |-> TRUE, c |-> m.out_channels, l |-> sh.l - m.kernel_size]

\* One module of self.net applied to a tensor: an unpadded stride-1
\* convolution needs its in_channels and at least kernel_size positions.
ApplyModule(m, sh) ==
    IF ~sh.ok THEN BadShape
    ELSE IF m.kind = "ReLU" THEN sh
    ELSE IF sh.c # m.in_channels \/ sh.l < m.kernel_size THEN BadShape
    ELSE [ok |-> TRUE, c |-> m.out_channels, l |-> sh.l - m.kernel_size + 1]

RECURSIVE ApplyNet(_, _, _)
ApplyNet(net, k, sh) ==
    IF k = 0 THEN sh ELSE ApplyModule(net[k], ApplyNet(net, k - 1, sh))

\* forward, lines 43-50, on a batch of signals of length n: unsqueeze_(1)
\* inserts one channel axis, the net runs, the view flattens to
\* dims[1] * dims[2] columns and the head needs exactly in_features columns.
forward(model, n) ==
    LET out == ApplyNet(model.net, Len(model.net), [ok |-> TRUE, c |-> 1, l |-> n])
    IN  IF out.ok /\ out.c * out.l = model.fc.in_features
        THEN [ok |-> TRUE, flat |-> out.c * out.l, width |-> model.fc.out_features]
        ELSE [ok |-> FALSE, flat |-> IF out.ok THEN out.c * out.l ELSE 0, width |-> 0]

\* training_step, lines 52-68: what is applied to the head's output
training_step(model) ==
    IF model.no_classes = 2
    THEN [squeeze |-> TRUE, activation |-> "sigmoid", loss |-> "binary_cross_entropy"]
    ELSE [squeeze |-> FALSE, activation |-> "none", loss |-> "cross_entropy"]

\* validation_step, lines 70-83
validation_step(model) ==
    IF model.no_classes = 2
    THEN [squeeze |-> TRUE, activation |-> "sigmoid", loss |-> "binary_cross_entropy"]
    ELSE [squeeze |-> FALSE, activation |-> "none", loss |-> "cross_entropy"]

\* Mutant: predict_step returns the raw output for every no_classes.
predict_step_Raw(model) ==
    [activation |-> "none", width |-> model.fc.out_features]

\* predict_step, lines 85-94: what is returned for a batch
predict_step(model) ==
    IF model.no_classes = 2
    THEN [activation |-> "sigmoid", width |-> model.fc.out_features]
    ELSE [activation |-> "none", width |-> model.fc.out_features]

----------------------------------------------------------------------------
(* vanilla_cnn.py: train_vanilla_cnn *)

\* bounds of the inputs of train_vanilla_cnn
MaxCnnLen == 5
MaxKernel == 3
MaxEpochsArg == 5
MaxLoss == 2

\* EarlyStopping(monitor="val_loss", mode="min") names no patience: the
\* callback's own default applies
ES_DEFAULT_PATIENCE == 3
TRAIN_BATCH == 32
VAL_BATCH == 64
MITHB_CLASSES == 5
PTBDB_CLASSES == 2

ChannelArgs == {<<1>>, <<2>>, <<1, 2>>, <<2, 2>>, <<1, 2, 1>>}
Losses == 0..MaxLoss
\* no validation loss seen yet (the callback starts from infinity)
NoBest == MaxLoss + 1

\* utils.prepare_datasets(x, y, x_test, y_test, True[, y_dtype=...]): the
\* datasets keep the signal length and the label type asked for
prepare_datasets(d, y_dtype) ==
    [train_dataset |-> [len |-> Len(d.X[1]), n |-> Len(d.X) - 1, y_dtype |-> y_dtype],
     val_dataset   |-> [len |-> Len(d.X[1]), n |-> 1, y_dtype |-> y_dtype],
     test_dataset  |-> [len |-> Len(d.X_test[1]), n |-> Len(d.X_test), y_dtype |-> y_dtype]]

EarlyStopping(monitor, md) ==
    [kind |-> "EarlyStopping", monitor |-> monitor, mode |-> md,
     patience |-> ES_DEFAULT_PATIENCE]

\* lines 124, 130, 136: the branch the dataset name takes
DatasetBranch(dataset) ==
    IF dataset = "mithb" THEN "mithb"
    ELSE IF dataset = "ptbdb" THEN "ptbdb"
    ELSE "ValueError"

\* lines 129 and 135: the number of classes of the branch
NoClasses(branch) == IF branch = "mithb" THEN MITHB_CLASSES ELSE PTBDB_CLASSES

\* lines 124-127 and 130-133: the loader of the named dataset, then
\* prepare_datasets
CNN_Load ==
    /\ mode = "cnn" /\ pc = "cnn_new"
    /\ DatasetBranch(args.dataset) # "ValueError"
    /\ loc' = IF DatasetBranch(args.dataset) = "mithb"
              THEN prepare_datasets(load_arrhythmia_dataset(sigLen), "default")
              ELSE prepare_datasets(load_PTB_dataset(sigLen), "float")
    /\ log' = Append(log, Ev("load", "datasets", "done"))
    /\ pc' = "cnn_build"
    /\ UNCHANGED <<mode, args, sigLen, self, raised, fit, calls>>

\* lines 128-129 and 134-135
CNN_Construct ==
    /\ mode = "cnn" /\ pc = "cnn_build"
    /\ LET out == args.channels[Len(args.channels)] * args.cnn_output_size
           no_classes == NoClasses(DatasetBranch(args.dataset))
       IN  loc' = SetAttr(loc, "model",
                     vanillaCNN(args.channels, args.kernel_size, out, no_classes))
    /\ log' = Append(log, Ev("construct", "model", "done"))
    /\ pc' = "cnn_trainer"
    /\ UNCHANGED <<mode, args, sigLen, self, raised, fit, calls>>

\* lines 136-137
CNN_Reject ==
    /\ mode = "cnn" /\ pc = "cnn_new"
    /\ DatasetBranch(args.dataset) = "ValueError"
    /\ raised' = "ValueError"
    /\ pc' = "failed"
    /\ UNCHANGED <<mode, args, sigLen, self, loc, fit, log, calls>>

\* lines 139-148
CNN_MakeTrainer ==
    /\ mode = "cnn" /\ pc = "cnn_trainer"
    /\ loc' = SetAttrs(loc,
          [train_loader |-> [dataset |-> loc.train_dataset, batch_size |-> TRAIN_BATCH,
                             shuffle |-> TRUE],
           val_loader |-> [dataset |-> loc.val_dataset, batch_size |-> VAL_BATCH,
                           shuffle |-> FALSE],
           trainer |-> [max_epochs |-> args.max_epochs,
                        callbacks |-> <<EarlyStopping("val_loss", "min")>>]])
    /\ pc' = "cnn_fit_call"
    /\ UNCHANGED <<mode, args, sigLen, self, raised, fit, log, calls>>

\* lines 149-151, entry of trainer.fit: the first batch through the model
\* (validation_step calls forward) fails when the shapes do not fit
CNN_FitBegin ==
    /\ mode = "cnn" /\ pc = "cnn_fit_call"
    /\ LET fwd == forward(loc.model, loc.val_loader.dataset.len)
       IN  /\ loc' = SetAttr(loc, "fwd", fwd)
           /\ IF fwd.ok
              THEN /\ fit' = [running |-> TRUE, epochs |-> loc.trainer.max_epochs,
                              batch_size |-> loc.train_loader.batch_size, epoch |-> 0,
                              callbacks |-> loc.trainer.callbacks,
                              best |-> NoBest, wait |-> 0, should_stop |-> FALSE]
                   /\ log' = Append(log, Ev("fit", "model", "begin"))
                   /\ pc' = "cnn_fit"
                   /\ UNCHANGED raised
              ELSE /\ raised' = "RuntimeError"
                   /\ log' = log \o <<Ev("fit", "model", "begin"),
                                      Ev("fit", "model", "raised")>>
                   /\ pc' = "failed"
                   /\ UNCHANGED fit
    /\ UNCHANGED <<mode, args, sigLen, self, calls>>

\* The early-stopping callback after one validation epoch with loss val_loss
\* (mode "min"): an improvement resets the wait, anything else lengthens it,
\* and the trainer is told to stop once the wait reaches the patience.
EarlyStoppingCheck(f, val_loss) ==
    LET es == f.callbacks[1]
        improved == val_loss < f.best
        wait == IF improved THEN 0 ELSE f.wait + 1
    IN  [f EXCEPT !.best = IF improved THEN val_loss ELSE @,
                  !.wait = wait,
                  !.should_stop = wait >= es.patience]

\* one epoch of trainer.fit: training_step on the training batches,
\* validation_step on the validation batches, then the callback
CNN_FitEpoch ==
    /\ mode = "cnn" /\ pc = "cnn_fit"
    /\ fit.running /\ ~fit.should_stop /\ fit.epoch < fit.epochs
    /\ \E val_loss \in Losses :
         fit' = [EarlyStoppingCheck(fit, val_loss) EXCEPT !.epoch = @ + 1]
    /\ loc' = SetAttrs(loc, [train_step |-> training_step(loc.model),
                             val_step |-> validation_step(loc.model)])
    /\ UNCHANGED <<mode, pc, args, sigLen, self, raised, log, calls>>

\* trainer.fit returns; line 153
CNN_Return ==
    /\ mode = "cnn" /\ pc = "cnn_fit"
    /\ fit.running /\ (fit.should_stop \/ fit.epoch = fit.epochs)
    /\ fit' = [fit EXCEPT !.running = FALSE]
    /\ log' = log \o <<Ev("fit", "model", "done"), Ev("return", "model", "done")>>
    /\ pc' = "returned"
    /\ UNCHANGED <<mode, args, sigLen, self, loc, raised, calls>>

\* the caller runs trainer.predict on the returned model: predict_step
CNN_PredictStep ==
    /\ mode = "cnn" /\ pc = "returned" /\ calls < MaxCalls
    /\ loc' = SetAttr(loc, "pred", predict_step(loc.model))
    /\ log' = Append(log, Ev("predict", "model", "done"))
    /\ calls' = calls + 1
    /\ UNCHANGED <<mode, pc, args, sigLen, self, raised, fit>>

----------------------------------------------------------------------------

InitAE ==
    /\ mode = "ae"
    /\ pc = AE_InitFlow("start")
    /\ args \in [dataset : DatasetArgs, train_ae_on : TrainAeOnArgs]
    /\ sigLen \in 1..MaxRawLen

InitCNN ==
    /\ mode = "cnn"
    /\ pc = "cnn_new"
    /\ args \in [channels : ChannelArgs, kernel_size : 1..MaxKernel,
                 cnn_output_size : 0..MaxCnnLen, dataset : DatasetArgs,
                 max_epochs : 1..MaxEpochsArg]
    /\ sigLen \in 1..MaxCnnLen

Init ==
    /\ InitAE \/ InitCNN
    /\ self = NoAttrs
    /\ loc = NoAttrs
    /\ raised = "none"
    /\ fit = NoFit
    /\ log = <<>>
    /\ calls = 0

Next ==
    \/ AE_InitAutoencoder
    \/ AE_LoadFiles
    \/ AE_SelectDataset
    \/ AE_PadSplitAssign
    \/ AE_CreateClf
    \/ AE_TrainFitBegin
    \/ AE_FitEpoch
    \/ AE_TrainFeaturize
    \/ AE_TrainFitClf
    \/ AE_Predict
    \/ CNN_Load
    \/ CNN_Construct
    \/ CNN_Reject
    \/ CNN_MakeTrainer
    \/ CNN_FitBegin
    \/ CNN_FitEpoch
    \/ CNN_Return
    \/ CNN_PredictStep

Spec == Init /\ [][Next]_vars

----------------------------------------------------------------------------
(* Helpers of the properties *)

ValidNames == {"mithb", "ptbdb"}

\* the dataset name has been checked
Checked ==
    \/ mode = "ae" /\ pc \in {"ae_split", "ae_clf", "ready", "ae_fit", "ae_fit_clf", "failed"}
    \/ mode = "cnn" /\ pc # "cnn_new"

\* the run was rejected for its dataset name
Rejected == pc = "failed" /\ raised = "ValueError"

Happened(op) == \E i \in 1..Len(log) : log[i].op = op

\* some entry equal to e comes before position i of the log
Before(i, e) == \E j \in 1..(i - 1) : log[j] = e

BeforeOp(i, op) == \E j \in 1..(i - 1) : log[j].op = op

TrainAttrs == {"X_train", "y_train", "X_valid", "y_valid", "X_test", "y_test",
               "X_train_full", "y_train_full", "clf"}

----------------------------------------------------------------------------
\* C1: every dataset name other than 'mithb' and 'ptbdb' is rejected with a
\* ValueError by both entry points (AutoencoderTree through load_data,
\* train_vanilla_cnn directly), and for 'mithb' and 'ptbdb' the check raises
\* nothing.
C1_DatasetValidation ==
    Checked =>
        IF args.dataset \in ValidNames THEN ~Rejected ELSE Rejected

C1_Witness ==
    /\ mode = "ae" /\ args.dataset = "PTBDB" /\ Rejected
    /\ Happened("load")

----------------------------------------------------------------------------
\* C9: when the dataset name is invalid the rejection comes before any
\* training state exists: train_vanilla_cnn has called no loader and built no
\* model, data loader or trainer; AutoencoderTree has assigned none of
\* X_train, y_train, X_valid, y_valid, X_test, y_test, X_train_full,
\* y_train_full, clf; and no fit or predict is called, then or afterwards
\* (nothing can run after the rejection).
C9_RejectedBeforeTrainingState ==
    (args.dataset \notin ValidNames /\ pc = "failed") =>
        /\ raised = "ValueError"
        /\ ~Happened("fit") /\ ~Happened("predict")
        /\ fit = NoFit
        /\ mode = "cnn" => (log = <<>> /\ DOMAIN loc = {})
        /\ mode = "ae" => DOMAIN self \cap TrainAttrs = {}
        /\ ~ENABLED Next

C9_Witness ==
    /\ mode = "ae" /\ args.dataset = "mitbih" /\ pc = "failed"
    /\ HasAttr(self, "autoencoder")

----------------------------------------------------------------------------
\* C2 as stated: in both pipelines the steps happen in the order (1) the
\* arrays are loaded, (2) the layer stack is constructed, (3) fit is called,
\* (4) predict is called, on every run with a valid dataset name: a stack is
\* only constructed after a load, a fit only starts after a construction, a
\* predict only after a finished fit, and a finished train_vanilla_cnn has
\* called predict.
C2_AsStated ==
    /\ \A i \in 1..Len(log) :
         /\ log[i].op = "construct" => BeforeOp(i, "load")
         /\ log[i].op = "fit" => BeforeOp(i, "construct")
         /\ log[i].op = "predict" =>
               \E j \in 1..(i - 1) : log[j].op = "fit" /\ log[j].at = "done"
    /\ \A i \in 1..Len(log) : log[i].op = "return" => BeforeOp(i, "predict")

\* C2 (amended): AutoencoderTree constructs the layer stack first and loads
\* the arrays second (both in its constructor), starts the autoencoder's fit
\* only after both and calls predict only after that fit has finished;
\* train_vanilla_cnn loads the arrays, then constructs the model, then calls
\* fit, and returns without calling predict (a predict happens only when the
\* caller runs one on what was returned). A step that has begun ends before
\* the next one starts.
C2_StepOrder ==
    /\ \A i \in 1..Len(log) :
         /\ (mode = "ae" /\ log[i].op = "load") => BeforeOp(i, "construct")
         /\ (mode = "ae" /\ log[i].op = "fit") => BeforeOp(i, "load")
         /\ (mode = "ae" /\ log[i].op = "predict") =>
               Before(i, Ev("fit", "autoencoder", "done"))
         /\ (mode = "cnn" /\ log[i].op = "construct") => BeforeOp(i, "load")
         /\ (mode = "cnn" /\ log[i].op = "fit") => BeforeOp(i, "construct")
         /\ (mode = "cnn" /\ log[i].op = "predict") =>
               /\ Before(i, Ev("fit", "model", "done"))
               /\ Before(i, Ev("return", "model", "done"))
         /\ (log[i].at = "begin" /\ i < Len(log)) =>
               /\ log[i + 1].op = log[i].op /\ log[i + 1].of = log[i].of
               /\ log[i + 1].at \in {"done", "raised"}
    /\ (mode = "ae" /\ pc = "ready") =>
          log[1] = Ev("construct", "autoencoder", "done") /\ log[2].op = "load"
    /\ (mode = "cnn" /\ pc = "returned") =>
          /\ log[1].op = "load" /\ log[2].op = "construct"
          /\ log[3] = Ev("fit", "model", "begin") /\ log[4] = Ev("fit", "model", "done")
          /\ log[5].op = "return"

C2_Witness ==
    /\ mode = "ae" /\ HasAttr(self, "y_pred")
    /\ log[Len(log)] = Ev("predict", "clf", "done")

----------------------------------------------------------------------------
\* C3 as stated: in both pipelines the fit call is given a batch size, an
\* epoch count and an early-stopping patience, and training halts at the
\* epoch count or earlier, as soon as the monitored validation metric has
\* failed to improve for the patience number of consecutive epochs.
C3_FitGivenPatience ==
    fit.running =>
        /\ fit.batch_size > 0
        /\ fit.epochs > 0
        /\ fit.epoch <= fit.epochs
        /\ Len(fit.callbacks) > 0
        /\ fit.callbacks[1].kind = "EarlyStopping"
        /\ fit.callbacks[1].patience > 0
        /\ fit.wait >= fit.callbacks[1].patience => fit.should_stop

----------------------------------------------------------------------------
\* C4: train fits the autoencoder on X_train_full, the padded arrhythmia
\* training array followed by the padded PTB one, when train_ae_on is 'full',
\* and on self.X_train of the selected dataset for every other value; the
\* tree classifier is fitted only on the features of the selected dataset's
\* X_train, with y_train.
PaddedSample(id) == Append(Sample(id, sigLen), 0)

C4_AutoencoderTrainingData ==
    (mode = "ae" /\ HasAttr(self, "X_train")) =>
        LET own == IF args.dataset = "mithb"
                   THEN {PaddedSample(1), PaddedSample(2)}
                   ELSE {PaddedSample(4), PaddedSample(5)}
        IN  /\ self.X_train_full = <<PaddedSample(1), PaddedSample(2),
                                     PaddedSample(4), PaddedSample(5)>>
            /\ \A i \in 1..Len(self.X_train) : self.X_train[i] \in own
            /\ self.autoencoder.epochs_run > 0 =>
                  self.autoencoder.fitted_on =
                      IF args.train_ae_on = "full"
                      THEN self.X_train_full ELSE self.X_train
            /\ (HasAttr(self, "clf") /\ self.clf.fitted) =>
                  /\ Len(self.clf.fit_X) = Len(self.X_train)
                  /\ \A i \in 1..Len(self.X_train) :
                        self.clf.fit_X[i].of = self.X_train[i]
                  /\ self.clf.fit_y = self.y_train

C4_Witness ==
    /\ mode = "ae" /\ args.train_ae_on = "both" /\ args.dataset = "ptbdb"
    /\ HasAttr(self, "clf") /\ self.clf.fitted
    /\ self.autoencoder.fitted_on = self.X_train

----------------------------------------------------------------------------
\* C5: load_data pads every sample of X_train, X_valid, X_test and
\* X_train_full with exactly one trailing zero, so a sample of length 187 has
\* length 188; for that length the autoencoder's layers give 94, 47, 94, 188
\* and an output as long as the input, and the flattened bottleneck used as
\* features has 47 * 2 = 94 values, fewer than the 188 inputs; for the
\* unpadded length 187 the output would have length 188 and differ from the
\* input's.
PaddedOnce(x) ==
    /\ Len(x) = sigLen + 1
    /\ x[Len(x)] = 0
    /\ \A k \in 1..sigLen : x[k] = x[1] /\ x[k] # 0

C5_PaddingAndShapes ==
    (mode = "ae" /\ HasAttr(self, "X_train")) =>
        /\ \A a \in {"X_train", "X_valid", "X_test", "X_train_full"} :
              \A i \in 1..Len(self[a]) : PaddedOnce(self[a][i])
        /\ sigLen = 187 =>
              LET n == Len(self.X_train[1])
                  lens == LayerLens(self.autoencoder.layers,
                                    Len(self.autoencoder.layers), n)
              IN  /\ n = 188
                  /\ lens = <<94, 47, 94, 188, 188>>
                  /\ OutputLen(self.autoencoder, n) = n
                  /\ FeatureWidth(self.autoencoder, n) = 94
                  /\ FeatureWidth(self.autoencoder, n) < n
                  /\ OutputLen(self.autoencoder, sigLen) = 188
                  /\ OutputLen(self.autoencoder, sigLen) # sigLen
                  /\ (HasAttr(self, "clf") /\ self.clf.fitted) =>
                        \A i \in 1..Len(self.clf.fit_X) :
                            self.clf.fit_X[i].width = 94
                  /\ HasAttr(self, "y_pred") => raised = "none"

C5_Witness ==
    /\ mode = "ae" /\ sigLen = 187
    /\ HasAttr(self, "clf") /\ self.clf.fitted
    /\ self.clf.fit_X[1].width = 94
    /\ Len(self.X_train_full[4]) = 188

----------------------------------------------------------------------------
\* C6: train_vanilla_cnn builds a multi-class model (no_classes = 5, the
\* datasets' own integer labels) for 'mithb' and a binary one (no_classes =
\* 2, float labels) for 'ptbdb', and every step of a model makes the same
\* choice: with no_classes = 2 the head has one output, training_step and
\* validation_step use sigmoid and binary cross-entropy and predict_step
\* returns the sigmoid; with any other no_classes the head has no_classes
\* outputs, both steps use cross-entropy on the raw output and predict_step
\* returns the raw output.
MaxClasses == 6

StepsAgree(model) ==
    LET binary == model.no_classes = 2
        want == IF binary
                THEN [squeeze |-> TRUE, activation |-> "sigmoid",
                      loss |-> "binary_cross_entropy"]
                ELSE [squeeze |-> FALSE, activation |-> "none",
                      loss |-> "cross_entropy"]
    IN  /\ model.fc.out_features = IF binary THEN 1 ELSE model.no_classes
        /\ training_step(model) = want
        /\ validation_step(model) = want
        /\ predict_step(model).activation = want.activation
        /\ predict_step(model).width = model.fc.out_features

C6_BinaryMulticlassConsistent ==
    (mode = "cnn" /\ HasAttr(loc, "model")) =>
        /\ args.dataset = "mithb" =>
              loc.model.no_classes = 5 /\ loc.train_dataset.y_dtype = "default"
        /\ args.dataset = "ptbdb" =>
              loc.model.no_classes = 2 /\ loc.train_dataset.y_dtype = "float"
        /\ StepsAgree(loc.model)
        /\ \A nc \in 1..MaxClasses :
              StepsAgree(vanillaCNN(args.channels, args.kernel_size,
                                    loc.model.fc.in_features, nc))
        /\ HasAttr(loc, "train_step") =>
              /\ loc.train_step = training_step(loc.model)
              /\ loc.val_step = loc.train_step
        /\ HasAttr(loc, "pred") =>
              /\ loc.pred.activation =
                    IF loc.model.no_classes = 2 THEN "sigmoid" ELSE "none"
              /\ HasAttr(loc, "train_step") =>
                    loc.pred.activation = loc.train_step.activation

C6_Witness ==
    /\ mode = "cnn" /\ args.dataset = "ptbdb"
    /\ HasAttr(loc, "pred") /\ HasAttr(loc, "train_step")
    /\ loc.pred.activation = "sigmoid" /\ loc.pred.width = 1

----------------------------------------------------------------------------
(* C7: the convolution stack and the width of the head *)

Convs == Len(args.channels) - 1
LastChannels == args.channels[Len(args.channels)]
\* the length the claim gives for the output of the last convolution
ConvOutLen == sigLen - Convs * (args.kernel_size - 1)

NetAsClaimed(model) ==
    /\ Len(model.net) = 2 * Convs
    /\ \A i \in 1..Convs :
          /\ model.net[2 * i - 1] = Conv1d(args.channels[i], args.channels[i + 1],
                                           args.kernel_size)
          /\ model.net[2 * i] = ReLU
    /\ model.fc.in_features = LastChannels * args.cnn_output_size

\* C7 as stated: the model has len(channels) - 1 unpadded stride-1
\* convolutions, each followed by a ReLU, and forward can succeed exactly
\* when cnn_output_size = L - (len(channels) - 1) * (kernel_size - 1) and
\* that value is at least 1.
C7_AsStated ==
    (mode = "cnn" /\ HasAttr(loc, "fwd")) =>
        /\ NetAsClaimed(loc.model)
        /\ loc.fwd.ok <=> (args.cnn_output_size = ConvOutLen /\ ConvOutLen >= 1)

\* C7 (amended): the structure is as stated, and forward gives the signal a
\* single channel (unsqueeze_(1)) before the first convolution. With
\* channels[0] = 1 the flattened output has channels[-1] * (L -
\* (len(channels) - 1) * (kernel_size - 1)) values and forward succeeds
\* exactly when cnn_output_size equals that length and it is at least 1.
\* With channels[0] # 1 forward fails at the first convolution whenever
\* there is one, whatever cnn_output_size is; with no convolution at all
\* (len(channels) = 1) the flattened output has L values and forward
\* succeeds exactly when channels[0] * cnn_output_size = L.
C7_ForwardShape ==
    (mode = "cnn" /\ HasAttr(loc, "fwd")) =>
        /\ NetAsClaimed(loc.model)
        /\ args.channels[1] = 1 =>
              /\ loc.fwd.ok <=> (args.cnn_output_size = ConvOutLen /\ ConvOutLen >= 1)
              /\ loc.fwd.ok => loc.fwd.flat = LastChannels * ConvOutLen
        /\ (args.channels[1] # 1 /\ Convs >= 1) => ~loc.fwd.ok
        /\ (args.channels[1] # 1 /\ Convs = 0) =>
              /\ loc.fwd.ok <=> (args.channels[1] * args.cnn_output_size = sigLen)
              /\ loc.fwd.flat = sigLen
        /\ loc.fwd.ok => loc.fwd.flat = loc.model.fc.in_features

C7_Witness ==
    /\ mode = "cnn" /\ HasAttr(loc, "fwd") /\ loc.fwd.ok
    /\ args.channels = <<1, 2, 1>> /\ args.kernel_size = 3
    /\ sigLen = 5 /\ args.cnn_output_size = 1

----------------------------------------------------------------------------
\* C8: on a constructed AutoencoderTree, predict() sets y_pred and
\* y_pred_proba only if a train() call has completed before it; predict()
\* calls made before any train() fail on the missing featurizer attribute
\* (AttributeError) and leave both unset. So y_pred and y_pred_proba,
\* whenever set, come from a fitted featurizer and a fitted classifier.
C8_PredictNeedsTrain ==
    mode = "ae" =>
        /\ HasAttr(self, "y_pred") <=> HasAttr(self, "y_pred_proba")
        /\ HasAttr(self, "y_pred") =>
              /\ Happened("fit") /\ \E i \in 1..Len(log) : log[i] = Ev("fit", "clf", "done")
              /\ HasAttr(self, "featurizer") /\ self.featurizer.epochs_run >= EPOCHS
              /\ self.clf.fitted
              /\ self.y_pred.clf_fitted /\ self.y_pred.featurizer_epochs >= EPOCHS
              /\ self.y_pred_proba.clf_fitted
        /\ (pc = "ready" /\ HasAttr(self, "featurizer")) => self.clf.fitted
        /\ (calls > 0 /\ ~Happened("fit")) =>
              /\ raised = "AttributeError"
              /\ ~HasAttr(self, "y_pred") /\ ~HasAttr(self, "y_pred_proba")
              /\ ~HasAttr(self, "featurizer")

C8_Witness ==
    /\ mode = "ae" /\ calls = 3 /\ HasAttr(self, "y_pred")
    /\ log[Len(log) - 2] = Ev("fit", "clf", "done")

====
